---- MODULE Spec2Model ----
(***************************************************************************)
(* CashTrackerView: the SMS cash ledger of src/index.js and its in-process *)
(* cron variant src/unnamed/part_000.                                      *)
(*                                                                         *)
(* Three specifications over one set of variables:                         *)
(*   Spec          concurrent invocations of POST /sms against the store   *)
(*   SpecClassify  the classification of one message text, inputs drawn    *)
(*                 from ClassifyInputs (keyword, number, date parsing)     *)
(*   SpecTrigger   the daily prompt: GET /send-sms (index.js) and the      *)
(*                 cron.schedule callback (part_000)                       *)
(*                                                                         *)
(* Conventions.  A message text is a sequence of one-character strings.    *)
(* An amount is an integer number of thousandths of a dollar; the inputs   *)
(* carry at most three decimals, so parseFloat and the sums are exact.     *)
(* An instant is <<year, month, day, millisecond of day, microsecond>> in  *)
(* the server's time zone: moment works to the millisecond, the store's    *)
(* created_at column to the microsecond.                                   *)
(***************************************************************************)
EXTENDS Integers, Sequences, FiniteSets, TLC

VARIABLES
    store,          \* table cash_entries: sequence of [phone, amount, created_at]
    req,            \* req[r]: the state of invocation r of POST /sms
    now,            \* index in TimePoints of the current instant
    strictNoZero,   \* the moment build rejects a leading zero for M and D (2.30+)
    cText,          \* SpecClassify: the raw message body
    cYear,          \* SpecClassify: moment().year()
    cOut,           \* SpecClassify: the classification, NoIntent before it
    userPhone,      \* process.env.USER_PHONE_NUMBER ("" when not configured)
    trig,           \* trig[t]: the state of trigger invocation t
    outbox          \* messages accepted by the messaging provider

vars == <<store, req, now, strictNoZero, cText, cYear, cOut, userPhone, trig, outbox>>

-----------------------------------------------------------------------------
(* Characters and strings                                                  *)

Digits == <<"0", "1", "2", "3", "4", "5", "6", "7", "8", "9">>

UpperAlpha == <<"A", "B", "C", "D", "E", "F", "G", "H", "I", "J", "K", "L", "M",
                "N", "O", "P", "Q", "R", "S", "T", "U", "V", "W", "X", "Y", "Z">>

LowerAlpha == <<"a", "b", "c", "d", "e", "f", "g", "h", "i", "j", "k", "l", "m",
                "n", "o", "p", "q", "r", "s", "t", "u", "v", "w", "x", "y", "z">>

WhiteSpace == {" ", "\t", "\n", "\r"}

IsDigit(c) == \E i \in 1..10 : Digits[i] = c

DigitVal(c) == (CHOOSE i \in 1..10 : Digits[i] = c) - 1

AllDigits(s) == \A i \in 1..Len(s) : IsDigit(s[i])

LowerChar(c) ==
    IF \E i \in 1..26 : UpperAlpha[i] = c
    THEN LowerAlpha[CHOOSE i \in 1..26 : UpperAlpha[i] = c]
    ELSE c

\* String.prototype.toLowerCase
ToLowerCase(s) == [i \in 1..Len(s) |-> LowerChar(s[i])]

\* String.prototype.trim
Trim(s) ==
    LET keep == {i \in 1..Len(s) : s[i] \notin WhiteSpace}
    IN  IF keep = {} THEN <<>>
        ELSE LET lo == CHOOSE i \in keep : \A j \in keep : i <= j
                 hi == CHOOSE i \in keep : \A j \in keep : j <= i
             IN  SubSeq(s, lo, hi)

\* the value of a run of decimal digits
RECURSIVE DecValue(_)
DecValue(s) ==
    IF s = <<>> THEN 0
    ELSE 10 * DecValue(SubSeq(s, 1, Len(s) - 1)) + DigitVal(s[Len(s)])

\* String(n) for n >= 0, as a sequence of characters
RECURSIVE NumChars(_)
NumChars(n) ==
    IF n < 10 THEN <<Digits[n + 1]>>
    ELSE NumChars(n \div 10) \o <<Digits[(n % 10) + 1]>>

-----------------------------------------------------------------------------
(* The numeric branch: /^\d+(\.\d+)?$/ and parseFloat                      *)

DotAt(s) == {i \in 1..Len(s) : s[i] = "."}

NumberRegexTest(s) ==
    \/ Len(s) >= 1 /\ AllDigits(s)
    \/ \E i \in DotAt(s) :
          /\ i > 1 /\ i < Len(s)
          /\ AllDigits(SubSeq(s, 1, i - 1))
          /\ AllDigits(SubSeq(s, i + 1, Len(s)))

\* parseFloat of a string the regex accepted, in thousandths
ParseFloat(s) ==
    IF DotAt(s) = {} THEN 1000 * DecValue(s)
    ELSE LET i    == CHOOSE j \in DotAt(s) : TRUE
             frac == SubSeq(s, i + 1, Len(s))
             pad  == SubSeq(frac \o <<"0", "0", "0">>, 1, 3)
         IN  1000 * DecValue(SubSeq(s, 1, i - 1)) + DecValue(pad)

-----------------------------------------------------------------------------
(* moment(text, formats, true): strict parsing against a list of formats   *)

\* the English locale's month names, as the parser reads them
MonthsLong ==
    << <<"J","a","n","u","a","r","y">>, <<"F","e","b","r","u","a","r","y">>,
       <<"M","a","r","c","h">>, <<"A","p","r","i","l">>, <<"M","a","y">>,
       <<"J","u","n","e">>, <<"J","u","l","y">>, <<"A","u","g","u","s","t">>,
       <<"S","e","p","t","e","m","b","e","r">>, <<"O","c","t","o","b","e","r">>,
       <<"N","o","v","e","m","b","e","r">>, <<"D","e","c","e","m","b","e","r">> >>

MonthsShort ==
    << <<"J","a","n">>, <<"F","e","b">>, <<"M","a","r">>, <<"A","p","r">>,
       <<"M","a","y">>, <<"J","u","n">>, <<"J","u","l">>, <<"A","u","g">>,
       <<"S","e","p">>, <<"O","c","t">>, <<"N","o","v">>, <<"D","e","c">> >>

\* the same names as format('MMMM') writes them
MonthNames ==
    <<"January", "February", "March", "April", "May", "June", "July",
      "August", "September", "October", "November", "December">>

\* faulty variant: a year alone is accepted as a date
FormatsWithBareYear ==
    << <<"MMMM", " ", "YYYY">>, <<"MMM", " ", "YYYY">>,
       <<"MM", "/", "YYYY">>, <<"M", "/", "YYYY">>,
       <<"MM", "/", "DD", "/", "YYYY">>, <<"M", "/", "D", "/", "YYYY">>,
       <<"YYYY">> >>

\* faulty variant: the full dates read day first
FormatsDayFirst ==
    << <<"MMMM", " ", "YYYY">>, <<"MMM", " ", "YYYY">>,
       <<"MM", "/", "YYYY">>, <<"M", "/", "YYYY">>,
       <<"DD", "/", "MM", "/", "YYYY">>, <<"D", "/", "M", "/", "YYYY">> >>

\* the formats of the first parse, and of the retry with the year appended
Formats ==
    << <<"MMMM", " ", "YYYY">>, <<"MMM", " ", "YYYY">>,
       <<"MM", "/", "YYYY">>, <<"M", "/", "YYYY">>,
       <<"MM", "/", "DD", "/", "YYYY">>, <<"M", "/", "D", "/", "YYYY">> >>

RetryFormats == << <<"MMMM", " ", "YYYY">>, <<"MMM", " ", "YYYY">> >>

StartsWithName(s, name) ==
    /\ Len(s) >= Len(name)
    /\ ToLowerCase(SubSeq(s, 1, Len(name))) = ToLowerCase(name)

\* the months whose name the text starts with, ignoring case
NameMatches(s, names) == {m \in 1..12 : StartsWithName(s, names[m])}

LeadingDigits(s, n) == Len(s) >= n /\ AllDigits(SubSeq(s, 1, n))

\* M and D in strict mode: one or two digits; newer builds refuse a leading zero
OneOrTwoDigits(s) ==
    IF ~LeadingDigits(s, 1) \/ (strictNoZero /\ s[1] = "0") THEN 0
    ELSE IF LeadingDigits(s, 2) THEN 2 ELSE 1

\* how many characters of s the token consumes; 0 when it does not match there
MatchLen(token, s) ==
    CASE token = "MMMM" ->
           IF NameMatches(s, MonthsLong) = {} THEN 0
           ELSE Len(MonthsLong[CHOOSE m \in NameMatches(s, MonthsLong) : TRUE])
      [] token = "MMM"  ->
           IF NameMatches(s, MonthsShort) = {} THEN 0
           ELSE Len(MonthsShort[CHOOSE m \in NameMatches(s, MonthsShort) : TRUE])
      [] token = "YYYY" -> IF LeadingDigits(s, 4) THEN 4 ELSE 0
      [] token \in {"MM", "DD"} -> IF LeadingDigits(s, 2) THEN 2 ELSE 0
      [] token \in {"M", "D"} -> OneOrTwoDigits(s)
      [] OTHER -> IF Len(s) >= 1 /\ s[1] = token THEN 1 ELSE 0

\* the date fields after the token read `part`
TokenValue(token, part, fields) ==
    CASE token = "MMMM" ->
           [fields EXCEPT !.month = CHOOSE m \in NameMatches(part, MonthsLong) : TRUE]
      [] token = "MMM"  ->
           [fields EXCEPT !.month = CHOOSE m \in NameMatches(part, MonthsShort) : TRUE]
      [] token = "YYYY" -> [fields EXCEPT !.year = DecValue(part)]
      [] token \in {"MM", "M"} -> [fields EXCEPT !.month = DecValue(part)]
      [] token \in {"DD", "D"} -> [fields EXCEPT !.day = DecValue(part)]
      [] OTHER -> fields

IsLeapYear(y) == (y % 4 = 0 /\ y % 100 # 0) \/ y % 400 = 0

\* month is 1..12 here (moment counts from 0)
DaysInMonth(y, m) ==
    IF m = 2 THEN (IF IsLeapYear(y) THEN 29 ELSE 28)
    ELSE 31 - (((m - 1) % 7) % 2)

\* checkOverflow: the month and the day of the month must exist
Overflows(fields) ==
    \/ fields.month < 1 \/ fields.month > 12
    \/ fields.day < 1 \/ fields.day > DaysInMonth(fields.year, fields.month)

Unparsed == [valid |-> FALSE, year |-> 0, month |-> 0, day |-> 0]

\* tokens k.. of the format against the rest of the input; strict mode: every
\* token matches where the previous one ended and no character is left over
RECURSIVE ParseTokens(_, _, _, _)
ParseTokens(format, k, rest, fields) ==
    IF k > Len(format)
    THEN IF rest = <<>> /\ ~Overflows(fields)
         THEN [fields EXCEPT !.valid = TRUE] ELSE Unparsed
    ELSE LET n == MatchLen(format[k], rest)
         IN  IF n = 0 THEN Unparsed
             ELSE ParseTokens(format, k + 1, SubSeq(rest, n + 1, Len(rest)),
                              TokenValue(format[k], SubSeq(rest, 1, n), fields))

\* moment(text, format, true); an absent month defaults to January, an
\* absent day to the 1st
ParseStrict(text, format) ==
    ParseTokens(format, 1, text, [valid |-> FALSE, year |-> 0, month |-> 1, day |-> 1])

\* moment(text, formats, true): the first format of the list that parses
RECURSIVE MomentStrict(_, _, _)
MomentStrict(text, formats, k) ==
    IF k > Len(formats) THEN Unparsed
    ELSE LET m == ParseStrict(text, formats[k])
         IN  IF m.valid THEN m ELSE MomentStrict(text, formats, k + 1)

\* the parse of the handler: the six formats, then the month name with the
\* current year appended
DateQuery(text, year) ==
    LET first == MomentStrict(text, Formats, 1)
    IN  IF first.valid THEN first
        ELSE MomentStrict(text \o <<" ">> \o NumChars(year), RetryFormats, 1)

-----------------------------------------------------------------------------
(* Instants and the month range                                            *)

\* a <= b for instants <<year, month, day, millisecond, microsecond>>
RECURSIVE LexLeq(_, _, _)
LexLeq(a, b, k) ==
    IF k > Len(a) THEN TRUE
    ELSE IF a[k] # b[k] THEN a[k] < b[k]
    ELSE LexLeq(a, b, k + 1)

TsLeq(a, b) == LexLeq(a, b, 1)

\* moment({year, month, day: 1}).toISOString()
StartDate(y, m) == <<y, m, 1, 0, 0>>

\* moment({year, month}).endOf('month').toISOString(): the last millisecond
EndDate(y, m) == <<y, m, DaysInMonth(y, m), 86399999, 0>>

\* zero-filled year of format('YYYY')
YearLabel(y) ==
    (IF y < 10 THEN "000" ELSE IF y < 100 THEN "00" ELSE IF y < 1000 THEN "0" ELSE "")
        \o ToString(y)

\* dateQuery.format('MMMM YYYY')
MonthLabel(y, m) == MonthNames[m] \o " " \o YearLabel(y)

-----------------------------------------------------------------------------
(* Classification: the handler's cascade of checks on the trimmed text     *)

NoIntent == [tag |-> "None", amount |-> 0, year |-> 0, month |-> 0,
             startDate |-> <<>>, endDate |-> <<>>, label |-> ""]

IsTotal(text) == ToLowerCase(text) = <<"t", "o", "t", "a", "l">>

IsNumber(text) == NumberRegexTest(text)

IsDate(text, year) == DateQuery(text, year).valid

MonthQuery(y, m) ==
    [NoIntent EXCEPT !.tag = "MonthQuery", !.year = y, !.month = m,
                     !.startDate = StartDate(y, m), !.endDate = EndDate(y, m),
                     !.label = MonthLabel(y, m)]

Classify(text, year) ==
    IF IsTotal(text) THEN [NoIntent EXCEPT !.tag = "Total"]
    ELSE IF IsNumber(text)
    THEN [NoIntent EXCEPT !.tag = "CashEntry", !.amount = ParseFloat(text)]
    ELSE IF IsDate(text, year)
    THEN MonthQuery(DateQuery(text, year).year, DateQuery(text, year).month)
    ELSE [NoIntent EXCEPT !.tag = "Invalid"]

-----------------------------------------------------------------------------
(* Bounds and inputs of the handler specification                          *)

MaxReq == 2

Requests == 1..MaxReq

\* instants the store's clock passes through: the first instant of March
\* 2023, half a millisecond before its end, and the first instant of April
TimePoints ==
    << <<2023, 3, 1, 0, 0>>,
       <<2023, 3, 31, 86399999, 500>>,
       <<2023, 4, 1, 0, 0>> >>

\* the webhook bodies Twilio posts: req.body.Body (absent in one) and req.body.From
Inbox ==
    { [hasBody |-> FALSE, Body |-> <<>>, From |-> "+15550001"],
      [hasBody |-> TRUE, Body |-> <<" ", "T", "o", "t", "a", "l", " ">>, From |-> "+15550001"],
      [hasBody |-> TRUE, Body |-> <<"5", "0">>, From |-> "+15550001"],
      [hasBody |-> TRUE, Body |-> <<"7", "5", ".", "5">>, From |-> "+15550002"],
      [hasBody |-> TRUE, Body |-> <<"M", "a", "r", "c", "h", " ", "2", "0", "2", "3">>,
       From |-> "+15550001"],
      [hasBody |-> TRUE, Body |-> <<"h", "e", "l", "l", "o">>, From |-> "+15550002"] }

\* what the table may hold when the server starts: nothing, or an entry of an
\* earlier run
InitialStores ==
    { <<>>,
      <<[phone |-> "+15550003", amount |-> 50000, created_at |-> TimePoints[1]]>> }

NoMsg == [hasBody |-> FALSE, Body |-> <<>>, From |-> ""]

-----------------------------------------------------------------------------
(* The persistence service (supabase, table cash_entries)                  *)

\* faulty variant: an upsert keyed by phone, which overwrites the sender's row
UpsertRow(rows, phone, amount, at) ==
    IF \E i \in 1..Len(rows) : rows[i].phone = phone
    THEN [i \in 1..Len(rows) |->
            IF rows[i].phone = phone
            THEN [phone |-> phone, amount |-> amount, created_at |-> at]
            ELSE rows[i]]
    ELSE Append(rows, [phone |-> phone, amount |-> amount, created_at |-> at])

\* .insert([{ phone, amount }]); created_at is set by the table, at insert time
InsertRow(rows, phone, amount, at) ==
    Append(rows, [phone |-> phone, amount |-> amount, created_at |-> at])

RECURSIVE AmountsOf(_)
AmountsOf(rows) ==
    IF rows = <<>> THEN <<>>
    ELSE <<rows[1].amount>> \o AmountsOf(Tail(rows))

\* faulty variant: only the first row is returned
SelectFirstRow(rows) == IF rows = <<>> THEN <<>> ELSE <<rows[1].amount>>

\* .select('amount')
SelectAll(rows) == AmountsOf(rows)

\* .gte('created_at', startDate).lte('created_at', endDate)
InRange(row, startDate, endDate) ==
    TsLeq(startDate, row.created_at) /\ TsLeq(row.created_at, endDate)

\* .select('amount').gte(...).lte(...)
SelectMonth(rows, startDate, endDate) ==
    AmountsOf(SelectSeq(rows, LAMBDA row : InRange(row, startDate, endDate)))

-----------------------------------------------------------------------------
(* Replies                                                                 *)

RetrieveError == "An error occurred while retrieving data. Please try again later."

SaveError == "An error occurred while saving your entry. Please try again later."

Recorded == "Your cash entry has been recorded."

InvalidInput ==
    "Invalid input. Please send a number, a valid date (e.g., \"March 2023\" or \"03/2023\"), or \"total\"."

UnexpectedError == "An unexpected error occurred. Please try again later."

\* data.reduce((sum, entry) => sum + parseFloat(entry.amount), 0)
RECURSIVE SumAmounts(_)
SumAmounts(data) ==
    IF data = <<>> THEN 0 ELSE data[1] + SumAmounts(Tail(data))

\* total.toFixed(2), for an amount in thousandths (the inputs never sum to an
\* exact half cent, where the binary value of the float would decide)
ToFixed2(amount) ==
    LET cents == (amount + 5) \div 10
    IN  ToString(cents \div 100) \o "."
          \o ToString((cents % 100) \div 10) \o ToString(cents % 10)

TotalReply(data) == "Total cash collected: $" \o ToFixed2(SumAmounts(data))

MonthReply(label, data) ==
    "Total cash for " \o label \o ": $" \o ToFixed2(SumAmounts(data))

-----------------------------------------------------------------------------
(* POST /sms                                                               *)

NoResult == [status |-> "none", data |-> <<>>]

IdleReq == [pc |-> "idle", msg |-> NoMsg, intent |-> NoIntent, result |-> NoResult,
            seen |-> 0, calls |-> 0, replies |-> <<>>, escaped |-> FALSE]

\* sendTwimlResponse(res, message): the invocation's reply, and its end
SendTwimlResponse(q, message) ==
    [q EXCEPT !.replies = Append(@, message), !.pc = "done"]

\* faulty variant: the handler without its catch block
Rethrow(q) == [q EXCEPT !.escaped = TRUE, !.pc = "done"]

\* catch (err) { ... }: the generic reply
Catch(q) == SendTwimlResponse(q, UnexpectedError)

\* the handler from its entry to its first await, or to its reply when it
\* awaits nothing: a body without Body throws at .trim(); an unrecognised
\* text is answered at once
OnReceive(m, year) ==
    LET q == [IdleReq EXCEPT !.msg = m]
    IN  IF ~m.hasBody THEN Catch(q)
        ELSE LET intent == Classify(Trim(m.Body), year)
             IN  IF intent.tag = "Invalid"
                 THEN SendTwimlResponse([q EXCEPT !.intent = intent], InvalidInput)
                 ELSE [q EXCEPT !.intent = intent, !.pc = "await", !.calls = @ + 1]

\* what the awaited call resolves to: { data, error }
CallResult(q, rows, ok) ==
    IF ~ok THEN [status |-> "error", data |-> <<>>]
    ELSE CASE q.intent.tag = "Total" -> [status |-> "ok", data |-> SelectAll(rows)]
           [] q.intent.tag = "MonthQuery" ->
                [status |-> "ok",
                 data |-> SelectMonth(rows, q.intent.startDate, q.intent.endDate)]
           [] OTHER -> [status |-> "ok", data |-> <<>>]

\* faulty variant: the row is written although the call reports an error
RowsAfterDespiteError(q, rows, ok, at) ==
    IF q.intent.tag = "CashEntry"
    THEN InsertRow(rows, q.msg.From, q.intent.amount, at)
    ELSE rows

\* the table after the call
RowsAfter(q, rows, ok, at) ==
    IF ok /\ q.intent.tag = "CashEntry"
    THEN InsertRow(rows, q.msg.From, q.intent.amount, at)
    ELSE rows

\* faulty variant: the insert's error is not looked at
OnResumeIgnoringError(q) ==
    CASE q.intent.tag = "Total" ->
           IF q.result.status = "error" THEN SendTwimlResponse(q, RetrieveError)
           ELSE SendTwimlResponse(q, TotalReply(q.result.data))
      [] q.intent.tag = "CashEntry" -> SendTwimlResponse(q, Recorded)
      [] OTHER ->
           IF q.result.status = "error" THEN SendTwimlResponse(q, RetrieveError)
           ELSE SendTwimlResponse(q, MonthReply(q.intent.label, q.result.data))

\* faulty variant: a failed call is issued once more
OnResumeRetrying(q) ==
    IF q.result.status = "error" /\ q.calls < 2
    THEN [q EXCEPT !.pc = "await", !.calls = @ + 1]
    ELSE CASE q.intent.tag = "Total" ->
                IF q.result.status = "error" THEN SendTwimlResponse(q, RetrieveError)
                ELSE SendTwimlResponse(q, TotalReply(q.result.data))
           [] q.intent.tag = "CashEntry" ->
                IF q.result.status = "error" THEN SendTwimlResponse(q, SaveError)
                ELSE SendTwimlResponse(q, Recorded)
           [] OTHER ->
                IF q.result.status = "error" THEN SendTwimlResponse(q, RetrieveError)
                ELSE SendTwimlResponse(q, MonthReply(q.intent.label, q.result.data))

\* the handler after its await
OnResume(q) ==
    CASE q.intent.tag = "Total" ->
           IF q.result.status = "error" THEN SendTwimlResponse(q, RetrieveError)
           ELSE SendTwimlResponse(q, TotalReply(q.result.data))
      [] q.intent.tag = "CashEntry" ->
           IF q.result.status = "error" THEN SendTwimlResponse(q, SaveError)
           ELSE SendTwimlResponse(q, Recorded)
      [] OTHER ->
           IF q.result.status = "error" THEN SendTwimlResponse(q, RetrieveError)
           ELSE SendTwimlResponse(q, MonthReply(q.intent.label, q.result.data))

CurrentYear == TimePoints[now][1]

\* Twilio posts message m; invocation r runs to its first await or to its reply
\* (invocations are numbered in the order of their arrival)
Receive(r, m) ==
    /\ req[r].pc = "idle"
    /\ \A p \in Requests : p < r => req[p].pc # "idle"
    /\ req' = [req EXCEPT ![r] = OnReceive(m, CurrentYear)]
    /\ UNCHANGED <<store, now, strictNoZero, cText, cYear, cOut, userPhone, trig, outbox>>

\* the persistence service carries out the call of invocation r, or fails it
DbCall(r, ok) ==
    /\ req[r].pc = "await"
    /\ store' = RowsAfter(req[r], store, ok, TimePoints[now])
    /\ req' = [req EXCEPT ![r] = [@ EXCEPT !.result = CallResult(req[r], store, ok),
                                           !.seen = Len(store),
                                           !.pc = "resume"]]
    /\ UNCHANGED <<now, strictNoZero, cText, cYear, cOut, userPhone, trig, outbox>>

\* invocation r resumes after its await and replies
Resume(r) ==
    /\ req[r].pc = "resume"
    /\ req' = [req EXCEPT ![r] = OnResume(req[r])]
    /\ UNCHANGED <<store, now, strictNoZero, cText, cYear, cOut, userPhone, trig, outbox>>

\* time passes
Tick ==
    /\ now < Len(TimePoints)
    /\ now' = now + 1
    /\ UNCHANGED <<store, req, strictNoZero, cText, cYear, cOut, userPhone, trig, outbox>>

MaxTrig == 3

Triggers == 1..MaxTrig

\* a trigger invocation: what it sent, what its caller gets back (the HTTP
\* response, how the callback's promise settled), and its console.error calls
IdleTrig == [kind |-> "none", pc |-> "idle", sends |-> 0, sent |-> "none",
             status |-> 0, body |-> "", settled |-> "pending", errors |-> 0]

Init ==
    /\ store \in InitialStores
    /\ req = [r \in Requests |-> IdleReq]
    /\ now = 1
    /\ strictNoZero = FALSE
    /\ cText = <<>>
    /\ cYear = 0
    /\ cOut = NoIntent
    /\ userPhone = ""
    /\ trig = [t \in Triggers |-> IdleTrig]
    /\ outbox = <<>>

Next ==
    \/ \E r \in Requests, m \in Inbox : Receive(r, m)
    \/ \E r \in Requests, ok \in BOOLEAN : DbCall(r, ok)
    \/ \E r \in Requests : Resume(r)
    \/ Tick

Spec == Init /\ [][Next]_vars

-----------------------------------------------------------------------------
(* Properties of POST /sms, checked under Spec                             *)

Replied(r) == req[r].pc = "done"

BodyText(r) == Trim(req[r].msg.Body)

\* the rows the call of invocation r found in the table
RowsSeen(r) == SubSeq(store, 1, req[r].seen)

RECURSIVE SumOfRows(_)
SumOfRows(rows) ==
    IF rows = <<>> THEN 0 ELSE Head(rows).amount + SumOfRows(Tail(rows))

\* C1: every invocation of POST /sms ends with exactly one reply and none
\* lets a failure escape to the transport: an invocation that has not yet
\* replied has sent nothing and can still proceed, one that has replied has
\* sent one message, and a request without a body is answered with the
\* generic error text.
C1_ExactlyOneReply ==
    \A r \in Requests :
        /\ ~req[r].escaped
        /\ Replied(r) => Len(req[r].replies) = 1
        /\ ~Replied(r) => Len(req[r].replies) = 0
        /\ req[r].pc = "await" => ENABLED DbCall(r, TRUE) /\ ENABLED DbCall(r, FALSE)
        /\ req[r].pc = "resume" => ENABLED Resume(r)
        /\ (Replied(r) /\ ~req[r].msg.hasBody) => req[r].replies = <<UnexpectedError>>
        /\ (Replied(r) /\ req[r].intent.tag = "Invalid") => req[r].replies = <<InvalidInput>>

\* C1 witness: two invocations have replied, one to a request without a
\* body, one after a failed persistence call.
C1_Witness ==
    \E a, b \in Requests :
        /\ Replied(a) /\ ~req[a].msg.hasBody /\ req[a].replies = <<UnexpectedError>>
        /\ Replied(b) /\ req[b].result.status = "error" /\ Len(req[b].replies) = 1

FirstOfNextMonth(y, m) == IF m = 12 THEN <<y + 1, 1, 1, 0, 0>> ELSE <<y, m + 1, 1, 0, 0>>

InMonth(row, y, m) ==
    /\ TsLeq(<<y, m, 1, 0, 0>>, row.created_at)
    /\ ~TsLeq(FirstOfNextMonth(y, m), row.created_at)

\* C2: the amount a month query reports is the sum of the entries recorded
\* from the first instant of the month up to, but not including, the first
\* instant of the next month.
C2_MonthHalfOpen ==
    \A r \in Requests :
        (Replied(r) /\ req[r].intent.tag = "MonthQuery" /\ req[r].result.status = "ok") =>
            req[r].replies =
                << "Total cash for " \o req[r].intent.label \o ": $"
                     \o ToFixed2(SumOfRows(SelectSeq(RowsSeen(r),
                            LAMBDA row : InMonth(row, req[r].intent.year, req[r].intent.month)))) >>

\* C3: a numeric message makes one insert, of the sender and the parsed
\* amount, and the confirmation is sent only once that insert has succeeded:
\* the store then holds the entry.
C3_ConfirmationAfterInsert ==
    \A r \in Requests :
        /\ (req[r].pc # "idle" /\ req[r].msg.hasBody /\ NumberRegexTest(BodyText(r))) =>
              /\ req[r].intent.tag = "CashEntry"
              /\ req[r].calls = 1
              /\ BodyText(r) = <<"5", "0">> => req[r].intent.amount = 50000
              /\ BodyText(r) = <<"7", "5", ".", "5">> => req[r].intent.amount = 75500
              /\ (Replied(r) /\ req[r].result.status = "ok") => req[r].replies = <<Recorded>>
        /\ (Replied(r) /\ req[r].replies = <<Recorded>>) =>
              /\ req[r].msg.hasBody /\ NumberRegexTest(BodyText(r))
              /\ req[r].result.status = "ok"
              /\ req[r].seen < Len(store)
              /\ store[req[r].seen + 1].phone = req[r].msg.From
              /\ store[req[r].seen + 1].amount = req[r].intent.amount

\* C3 witness: the message "75.5" from +15550002 has been confirmed.
C3_Witness ==
    \E r \in Requests :
        /\ req[r].replies = <<Recorded>>
        /\ BodyText(r) = <<"7", "5", ".", "5">>
        /\ \E i \in 1..Len(store) : store[i].phone = "+15550002" /\ store[i].amount = 75500

\* C4: an invocation makes one persistence call when its message is a total
\* request, a cash entry or a month query, none otherwise, and never a second.
C4_OnePersistenceCall ==
    \A r \in Requests :
        /\ req[r].calls <= 1
        /\ req[r].intent.tag \in {"Total", "CashEntry", "MonthQuery"} => req[r].calls = 1
        /\ req[r].intent.tag \in {"Invalid", "None"} => req[r].calls = 0
        /\ req[r].result.status # "none" => req[r].calls = 1

\* C4 witness: an invocation whose only call failed has replied, beside one
\* that made no call.
C4_Witness ==
    \E a, b \in Requests :
        /\ Replied(a) /\ req[a].result.status = "error" /\ req[a].calls = 1
        /\ Replied(b) /\ req[b].intent.tag = "Invalid" /\ req[b].calls = 0

\* C5: "total" in any case is answered with the sum of every entry the store
\* held when it was read, with two decimals.
C5_TotalOfAllEntries ==
    \A r \in Requests :
        (/\ Replied(r) /\ req[r].msg.hasBody
         /\ ToLowerCase(BodyText(r)) = <<"t", "o", "t", "a", "l">>
         /\ req[r].result.status = "ok") =>
            /\ req[r].replies =
                  <<"Total cash collected: $" \o ToFixed2(SumOfRows(RowsSeen(r)))>>
            /\ req[r].seen = 0 => req[r].replies = <<"Total cash collected: $0.00">>
            /\ SumOfRows(RowsSeen(r)) = 125500 =>
                  req[r].replies = <<"Total cash collected: $125.50">>

\* C5 witness: two entries, 50 and 75.5, were read and $125.50 was reported.
C5_Witness ==
    \E r \in Requests :
        /\ req[r].replies = <<"Total cash collected: $125.50">>
        /\ req[r].seen = 2

\* C6: when the persistence call fails, the store is not changed by that
\* call nor by the rest of the invocation, nothing escapes the handler, and
\* the reply is the fixed error text of the operation.
C6_ErrorReply ==
    [][\A r \in Requests :
          (req'[r].result.status = "error" /\ req'[r] # req[r]) =>
              /\ store' = store
              /\ ~req'[r].escaped
              /\ req'[r].pc = "done" =>
                    req'[r].replies =
                        << IF req'[r].intent.tag = "CashEntry" THEN SaveError
                           ELSE RetrieveError >>]_vars

\* C6 witness: a failed insert and a failed month query have both been
\* answered.
C6_Witness ==
    \E a, b \in Requests :
        /\ req[a].result.status = "error" /\ req[a].replies = <<SaveError>>
        /\ req[b].result.status = "error" /\ req[b].replies = <<RetrieveError>>
        /\ req[b].intent.tag = "MonthQuery"

SucceededInserts ==
    {r \in Requests : req[r].intent.tag = "CashEntry" /\ req[r].result.status = "ok"}

\* C10: the store only grows, by one entry per successful cash entry: a step
\* keeps every existing entry, adds at most one, adds none on behalf of a
\* total request, a month query or an unrecognised message, and adds exactly
\* as many entries as inserts succeed in it.
C10_AppendOnly ==
    [][/\ Len(store') >= Len(store)
       /\ SubSeq(store', 1, Len(store)) = store
       /\ Len(store') <= Len(store) + 1
       /\ \A r \in Requests :
             (req'[r] # req[r] /\ req'[r].intent.tag \in {"Total", "MonthQuery", "Invalid", "None"})
                 => store' = store
       /\ Len(store') - Len(store)
             = Cardinality(SucceededInserts') - Cardinality(SucceededInserts)]_vars

\* C10 witness: two cash entries were in flight together and both inserts
\* succeeded before either invocation resumed.
C10_Witness ==
    \E a, b \in Requests :
        /\ a # b
        /\ req[a].pc = "resume" /\ req[a].intent.tag = "CashEntry" /\ req[a].result.status = "ok"
        /\ req[b].pc = "resume" /\ req[b].intent.tag = "CashEntry" /\ req[b].result.status = "ok"
        /\ Len(store) >= 2
        /\ store[Len(store)].amount = req[b].intent.amount
        /\ store[Len(store) - 1].amount = req[a].intent.amount

-----------------------------------------------------------------------------
(* SpecClassify: one message text through the handler's checks             *)

Years == {2023, 2024}

ClassifyDays == {1, 9, 15, 28, 29, 30, 31}

Pad2(n) == IF n < 10 THEN <<"0">> \o NumChars(n) ELSE NumChars(n)

\* the shapes of date message the handler's comment lists, for month m of year y
FullNameYear(m, y) == MonthsLong[m] \o <<" ">> \o NumChars(y)

AbbrNameYear(m, y) == MonthsShort[m] \o <<" ">> \o NumChars(y)

PaddedMonthYear(m, y) == Pad2(m) \o <<"/">> \o NumChars(y)

PlainMonthYear(m, y) == NumChars(m) \o <<"/">> \o NumChars(y)

PaddedDate(m, d, y) == Pad2(m) \o <<"/">> \o Pad2(d) \o <<"/">> \o NumChars(y)

PlainDate(m, d, y) == NumChars(m) \o <<"/">> \o NumChars(d) \o <<"/">> \o NumChars(y)

DateTexts ==
    UNION { { FullNameYear(m, y), AbbrNameYear(m, y), PaddedMonthYear(m, y),
              PlainMonthYear(m, y), MonthsLong[m], MonthsShort[m] }
            \cup { PaddedDate(m, d, y) : d \in ClassifyDays }
            \cup { PlainDate(m, d, y) : d \in ClassifyDays }
          : m \in 1..12, y \in Years }

\* keywords, numbers, near misses of each check, and texts no check accepts
OtherTexts ==
    { <<"t","o","t","a","l">>, <<" ","T","o","t","a","l"," ">>, <<"T","O","T","A","L","\n">>,
      <<"t","o","t","a","l","s">>, <<"t","o","t","a","l"," ","5">>,
      <<"5","0">>, <<"1","2",".","5">>, <<" ","0",".","1","2","5"," ">>, <<"0","0","7">>,
      <<"2","0","2","3">>, <<"1","2",".","5",".","3">>, <<"1","2",".">>, <<".","5">>,
      <<"-","5">>, <<"5","0","$">>, <<"1","e","3">>, <<"1",",","0","0","0">>,
      <<"h","e","l","l","o">>, <<>>, <<" "," ">>,
      <<"1","3","/","2","0","2","3">>, <<"0","/","2","0","2","3">>,
      <<"0","0","/","2","0","2","3">>, <<"3","/","2","3">>,
      <<"0","3","/","5","/","2","0","2","3">>, <<"3","/","0","5","/","2","0","2","3">>,
      <<"0","2","/","2","9","/","2","1","0","0">>, <<"0","2","/","2","9","/","2","0","0","0">>,
      <<"M","A","R","C","H"," ","2","0","2","3">>, <<"m","a","y">>,
      <<"M","a","r","c","h"," "," ","2","0","2","3">>,
      <<"M","a","r","c","h"," ","2","0","2","3","5">>,
      <<"M","a","r","c","h","2","0","2","3">>, <<"M","a","r","c"," ","2","0","2","3">>,
      <<"S","e","p","t"," ","2","0","2","3">>, <<"M","a","r","c","h"," ","1","5">>,
      <<"2","0","2","3","/","0","3">>, <<"3","-","2","0","2","3">> }

ClassifyInputs == DateTexts \cup OtherTexts

InitClassify ==
    /\ store = <<>>
    /\ req = [r \in Requests |-> IdleReq]
    /\ now = 1
    /\ strictNoZero \in BOOLEAN
    /\ cText \in ClassifyInputs
    /\ cYear \in Years
    /\ cOut = NoIntent
    /\ userPhone = ""
    /\ trig = [t \in Triggers |-> IdleTrig]
    /\ outbox = <<>>

\* the handler's checks on the trimmed body, with moment().year() = cYear
ClassifyStep ==
    /\ cOut.tag = "None"
    /\ cOut' = Classify(Trim(cText), cYear)
    /\ UNCHANGED <<store, req, now, strictNoZero, cText, cYear, userPhone, trig, outbox>>

NextClassify == ClassifyStep

SpecClassify == InitClassify /\ [][NextClassify]_vars

-----------------------------------------------------------------------------
(* SpecTrigger: the daily prompt                                           *)

Prompt == "How much cash did you make today?"

\* twilioClient.messages.create({ body, from, to }) is called
CreateMessage(x) == [x EXCEPT !.sends = @ + 1, !.pc = "await"]

\* GET /send-sms (index.js) up to its await, or to its response
HttpStart(x, phone) ==
    IF phone = ""
    THEN [x EXCEPT !.kind = "http", !.status = 500,
                   !.body = "User phone number not configured.",
                   !.settled = "fulfilled", !.pc = "done"]
    ELSE CreateMessage([x EXCEPT !.kind = "http"])

\* GET /send-sms after its await: 'SMS sent.' or the catch block's 500
HttpFinish(x) ==
    IF x.sent = "ok"
    THEN [x EXCEPT !.status = 200, !.body = "SMS sent.",
                   !.settled = "fulfilled", !.pc = "done"]
    ELSE [x EXCEPT !.status = 500, !.body = "Error sending SMS.", !.errors = @ + 1,
                   !.settled = "fulfilled", !.pc = "done"]

\* the cron.schedule callback (part_000) up to its await, or to its return
CronStart(x, phone) ==
    IF phone = ""
    THEN [x EXCEPT !.kind = "cron", !.errors = @ + 1,
                   !.settled = "fulfilled", !.pc = "done"]
    ELSE CreateMessage([x EXCEPT !.kind = "cron"])

\* the callback after its await: it logs either way and returns
CronFinish(x) ==
    IF x.sent = "ok"
    THEN [x EXCEPT !.settled = "fulfilled", !.pc = "done"]
    ELSE [x EXCEPT !.errors = @ + 1, !.settled = "fulfilled", !.pc = "done"]

\* Render's cron job calls GET /send-sms
SendSmsRequest(t) ==
    /\ trig[t].pc = "idle"
    /\ \A p \in Triggers : p < t => trig[p].pc # "idle"
    /\ trig' = [trig EXCEPT ![t] = HttpStart(trig[t], userPhone)]
    /\ UNCHANGED <<store, req, now, strictNoZero, cText, cYear, cOut, userPhone, outbox>>

\* node-cron fires the scheduled callback
CronFire(t) ==
    /\ trig[t].pc = "idle"
    /\ \A p \in Triggers : p < t => trig[p].pc # "idle"
    /\ trig' = [trig EXCEPT ![t] = CronStart(trig[t], userPhone)]
    /\ UNCHANGED <<store, req, now, strictNoZero, cText, cYear, cOut, userPhone, outbox>>

\* the messaging provider accepts the message, or the call rejects
ProviderAnswer(t, ok) ==
    /\ trig[t].pc = "await"
    /\ trig' = [trig EXCEPT ![t] = [@ EXCEPT !.sent = IF ok THEN "ok" ELSE "failed",
                                             !.pc = "resume"]]
    /\ outbox' = IF ok THEN Append(outbox, [to |-> userPhone, body |-> Prompt])
                 ELSE outbox
    /\ UNCHANGED <<store, req, now, strictNoZero, cText, cYear, cOut, userPhone>>

\* the trigger resumes after its await
TriggerFinish(t) ==
    /\ trig[t].pc = "resume"
    /\ trig' = [trig EXCEPT ![t] = IF trig[t].kind = "http" THEN HttpFinish(trig[t])
                                   ELSE CronFinish(trig[t])]
    /\ UNCHANGED <<store, req, now, strictNoZero, cText, cYear, cOut, userPhone, outbox>>

InitTrigger ==
    /\ store = <<>>
    /\ req = [r \in Requests |-> IdleReq]
    /\ now = 1
    /\ strictNoZero = FALSE
    /\ cText = <<>>
    /\ cYear = 0
    /\ cOut = NoIntent
    /\ userPhone \in {"", "+15550100"}
    /\ trig = [t \in Triggers |-> IdleTrig]
    /\ outbox = <<>>

NextTrigger ==
    \/ \E t \in Triggers : SendSmsRequest(t)
    \/ \E t \in Triggers : CronFire(t)
    \/ \E t \in Triggers, ok \in BOOLEAN : ProviderAnswer(t, ok)
    \/ \E t \in Triggers : TriggerFinish(t)

SpecTrigger == InitTrigger /\ [][NextTrigger]_vars

-----------------------------------------------------------------------------
(* Properties of the classification, checked under SpecClassify            *)

Classified == cOut.tag # "None"

\* the checks the trimmed text passes, each taken alone
ChecksPassed ==
    {c \in {"Total", "CashEntry", "MonthQuery"} :
        \/ c = "Total" /\ IsTotal(Trim(cText))
        \/ c = "CashEntry" /\ IsNumber(Trim(cText))
        \/ c = "MonthQuery" /\ IsDate(Trim(cText), cYear)}

\* C7: every text gets one of the four intents; no text passes two of the
\* keyword, number and date checks, so the intent is the one check passed
\* whatever the order of the checks, and Invalid exactly when none is passed.
\* (That the same text and year always give the same intent follows from
\* Classify reading nothing but the text, the year and the parser.)
C7_ChecksExclusive ==
    Classified =>
        /\ cOut.tag \in {"Total", "CashEntry", "MonthQuery", "Invalid"}
        /\ Cardinality(ChecksPassed) <= 1
        /\ ChecksPassed = {} <=> cOut.tag = "Invalid"
        /\ ChecksPassed # {} => ChecksPassed = {cOut.tag}

\* C7 witness: "2023" alone is a cash entry, not a date.
C7_Witness ==
    /\ Classified
    /\ cText = <<"2", "0", "2", "3">>
    /\ cOut.tag = "CashEntry" /\ cOut.amount = 2023000

\* the month query of month m of year y
ExpectedQuery(m, y) ==
    [tag |-> "MonthQuery", amount |-> 0, year |-> y, month |-> m,
     startDate |-> <<y, m, 1, 0, 0>>, endDate |-> EndDate(y, m),
     label |-> MonthNames[m] \o " " \o ToString(y)]

\* C8: month name and year, abbreviated name and year, MM/YYYY, M/YYYY,
\* MM/DD/YYYY and M/D/YYYY with any day of the month all give the same month
\* query, that of the month and year named; a month name alone gives the
\* query of that month in the current year.
C8_SameQueryForEveryShape ==
    Classified =>
        \A m \in 1..12 :
            /\ \A y \in Years :
                  Trim(cText) \in
                      ({ FullNameYear(m, y), AbbrNameYear(m, y),
                         PaddedMonthYear(m, y), PlainMonthYear(m, y) }
                       \cup { PaddedDate(m, d, y) : d \in 1..DaysInMonth(y, m) }
                       \cup { PlainDate(m, d, y) : d \in 1..DaysInMonth(y, m) })
                  => cOut = ExpectedQuery(m, y)
            /\ Trim(cText) \in {MonthsLong[m], MonthsShort[m]}
                  => cOut = ExpectedQuery(m, cYear)

\* C8 witness: "2/29/2024", read in 2023, is the query of February 2024.
C8_Witness ==
    /\ Classified
    /\ cText = <<"2", "/", "2", "9", "/", "2", "0", "2", "4">>
    /\ cYear = 2023
    /\ cOut.label = "February 2024"
    /\ cOut.endDate = <<2024, 2, 29, 86399999, 0>>

-----------------------------------------------------------------------------
(* Properties of the daily prompt, checked under SpecTrigger               *)

\* the caller of the trigger is told of a failure: an error status, or a
\* rejected promise
SignalsFailure(t) == trig[t].status >= 400 \/ trig[t].settled = "rejected"

TriggerContract(t) ==
    trig[t].pc = "done" =>
        /\ userPhone # "" => trig[t].sends = 1
        /\ userPhone = "" => trig[t].sends = 0
        /\ (trig[t].sent = "failed" \/ userPhone = "") => SignalsFailure(t)
        /\ ~SignalsFailure(t) => trig[t].sent = "ok"

\* C9: the trigger sends the prompt once to the configured number, reports
\* a failed send or a missing number to its caller as a failure, and reports
\* success only after the send succeeded.
C9_TriggerSignalsFailure ==
    /\ \A t \in Triggers : TriggerContract(t)
    /\ \A i \in 1..Len(outbox) : outbox[i] = [to |-> userPhone, body |-> Prompt]

\* C9, for GET /send-sms alone
C9_HttpTriggerSignalsFailure ==
    \A t \in Triggers : trig[t].kind = "http" => TriggerContract(t)

====
